---- MODULE Spec2Model ----
(***************************************************************************)
(* Order / inventory / payment microservices of order-system-project.     *)
(*                                                                         *)
(* Three stores (orders, stock_items, payments), one topic exchange        *)
(* "events" with four queues, three consumers and the HTTP endpoints.      *)
(*                                                                         *)
(*   Spec          every endpoint and every message handler as one atomic  *)
(*                 step, with store / broker faults and redelivery.        *)
(*   SpecReliable  the same steps with no fault and no redelivery.         *)
(*   SpecConc      two overlapping create_order requests and the inventory *)
(*                 consumer, each split at its store reads and commits.    *)
(*   SpecRestart   SpecReliable plus the order consumer losing and        *)
(*                 re-opening its connection, with fair consumers.         *)
(*   SpecScenario  a seeded SKU, create_order and the saga of its          *)
(*                 order.created event, with fair consumers.               *)
(*   SpecInput     one client's saga plus messages other clients put on   *)
(*                 the exchange: unparseable, incomplete, unknown order.   *)
(*   SpecInventory the inventory consumer's two callbacks, each split at   *)
(*                 its store read and its commit, on one thread.           *)
(*   SpecSaga      one client's saga with store / broker faults and        *)
(*                 redelivery in every handler.                            *)
(***************************************************************************)
EXTENDS Integers, Sequences, FiniteSets, TLC

\* ---------------------------------------------------------------- bounds
MaxOrders == 2        \* order ids (uuid4) the order service generates
MaxQty == 3           \* largest quantity an HTTP stock call may leave
MaxDebt == 2          \* lowest quantity an HTTP stock call may leave, negated
MaxPublish == 1       \* order.created events handed to publish_event
MaxRedeliver == 1     \* deliveries lost before their acknowledgement
SeedQty == 2          \* quantity the SKU is seeded with before the requests overlap
MaxForeign == 2       \* messages other clients put on the exchange

\* ------------------------------------------------------- program constants
PaymentCeiling == 1000

Sku == {"P-1001"}
Keys == {"k1", "k2"}
Amounts == {150, 1000}
ScenarioAmounts == {150, 400, 1000}
OrderQtys == {1, 2}
HttpQtys == {-1, 1, 2}
NoId == 0

QueueNames ==
  {"inventory.order.created", "inventory.payment.failed",
   "payment.stock.reserved", "order.events"}

\* routing keys each queue is bound to
Bindings ==
  [n \in QueueNames |->
     CASE n = "inventory.order.created" -> {"order.created"}
       [] n = "inventory.payment.failed" -> {"payment.failed"}
       [] n = "payment.stock.reserved" -> {"stock.reserved"}
       [] n = "order.events" -> {"payment.succeeded", "stock.rejected", "payment.failed"}]

HandlerFaults == {"none", "store", "publish", "crash"}
\* a downstream call of create_order that raises RequestException:
\*   "inventory"  POST /reserve (caught at main.py 64)
\*   "payment"    POST /authorize (caught at main.py 79)
\*   "release"    POST /release, called outside any try (main.py 81, 89)
HttpFaults == {"none", "inventory", "payment", "release"}

VARIABLES
  stock,        \* stock_items: item_sku -> quantity, for the rows that exist
  orders,       \* orders: set of rows
  payments,     \* payments: sequence of rows, in insertion (id) order
  queue,        \* the broker: queue name -> sequence of messages
  nextId,       \* next order id uuid4 hands out
  sent,         \* number of publish_event calls so far
  redelivered,  \* number of deliveries lost before the acknowledgement
  responses,    \* idempotency key -> the responses create_order returned
  reservedBy,   \* order id -> quantity the order.created handler took
  restoredBy,   \* order id -> quantity the payment.failed handler gave back
  http,         \* order-service request thread -> its place in create_order
  inv,          \* the inventory consumer's place in process_order_created
  listening,    \* the order consumer is connected and its queue exists
  owed,         \* terminal events published and not yet passed to callback
  crashed,      \* consumer threads ended by an exception their callback let out
  warnings,     \* payment.failed bodies the inventory consumer warned about
  comp,         \* the inventory consumer's place in process_payment_failed
  injected      \* messages put on the exchange by clients other than the services

vars ==
  <<stock, orders, payments, queue, nextId, sent, redelivered, responses,
    reservedBy, restoredBy, http, inv, listening, owed, crashed, warnings, comp,
    injected>>

OrderIds == 1..MaxOrders

\* ------------------------------------------------------------ stock ledger
HasItem(stk, sku) == sku \in DOMAIN stk

\* add_or_update_item: add to an existing row, else create it
Upserted(stk, sku, q) ==
  IF HasItem(stk, sku)
    THEN [stk EXCEPT ![sku] = @ + q]
    ELSE [s \in DOMAIN stk \cup {sku} |-> IF s = sku THEN q ELSE stk[s]]

\* the comparison is off by one: a row one short still counts as enough
EnoughOffByOne(quantity, q) == ~(quantity + 1 < q)

\* reserve test of both reserve paths: the row exists and holds enough
Enough(quantity, q) == ~(quantity < q)

CanReserve(stk, sku, q) == HasItem(stk, sku) /\ Enough(stk[sku], q)

\* the UPDATE a commit flushes: the row takes the value computed in Python
WriteBack(stk, sku, value) == [stk EXCEPT ![sku] = value]

\* the decrement is computed but never reaches the row
ReservedNotWritten(stk, sku, q) == stk

Reserved(stk, sku, q) == WriteBack(stk, sku, stk[sku] - q)

Released(stk, sku, q) == WriteBack(stk, sku, stk[sku] + q)

InRange(stk) == \A s \in DOMAIN stk : stk[s] >= -MaxDebt /\ stk[s] <= MaxQty

\* ------------------------------------------------------------------ broker
Message(rk, body) == [routing_key |-> rk, body |-> body]

\* the order consumer's queue is declared exclusive by its connection: the
\* queue and its bindings exist only while that connection does
Bound(n) == n = "order.events" => listening

\* basic_publish on the topic exchange: one copy to every bound queue
Publish(q, rk, body) ==
  [n \in QueueNames |->
     IF rk \in Bindings[n] /\ Bound(n) THEN Append(q[n], Message(rk, body)) ELSE q[n]]

Ack(q, n) == [q EXCEPT ![n] = Tail(@)]

\* the payment service's producer: the same exchange, the same routing
PaymentPublish(q, rk, body) == Publish(q, rk, body)

\* ----------------------------------------------------------------- payment
\* the ceiling itself is approved as well
is_successful_inclusive(amount) == amount <= PaymentCeiling

is_successful(amount) == amount < PaymentCeiling

PaymentRow(order_id, amount) ==
  [order_id |-> order_id, amount |-> amount,
   status |-> IF is_successful(amount) THEN "success" ELSE "failed",
   is_successful |-> is_successful(amount)]

\* ------------------------------------------------------------------ orders
OrderRow(order_id, req, status) ==
  [order_id |-> order_id, item_sku |-> req.item_sku, quantity |-> req.quantity,
   amount |-> req.amount, status |-> status,
   idempotency_key |-> req.idempotency_key]

Existing(key) == {o \in orders : o.idempotency_key = key}

\* status the order consumer writes for a routing key
StatusFor(routing_key, status) ==
  CASE routing_key = "payment.succeeded" -> "COMPLETED"
    [] routing_key = "stock.rejected" -> "CANCELLED_NO_STOCK"
    [] routing_key = "payment.failed" -> "CANCELLED_PAYMENT_FAILED"
    [] OTHER -> status

Threads == {"t1", "t2"}

NoReq == [item_sku |-> "", quantity |-> 0, amount |-> 0, idempotency_key |-> ""]

Idle ==
  [pc |-> "idle", req |-> NoReq, order_id |-> NoId, snap |-> 0,
   reserved |-> FALSE, paid |-> FALSE, authorized |-> FALSE,
   overlapped |-> FALSE, status |-> "", returned |-> NoId]

InitWith(stk) ==
  /\ stock = stk
  /\ orders = {}
  /\ payments = << >>
  /\ queue = [n \in QueueNames |-> << >>]
  /\ nextId = 1
  /\ sent = 0
  /\ redelivered = 0
  /\ responses = [k \in Keys |-> {}]
  /\ reservedBy = [o \in OrderIds |-> 0]
  /\ restoredBy = [o \in OrderIds |-> 0]
  /\ http = [t \in Threads |-> Idle]
  /\ inv = [pc |-> "idle", snap |-> 0]
  /\ listening = TRUE
  /\ owed = {}
  /\ crashed = {}
  /\ warnings = {}
  /\ comp = [pc |-> "idle", snap |-> 0]
  /\ injected = {}

\* the services right after start-up: empty tables, empty queues
Init == InitWith(<< >>)

\* ------------------------------------------------- inventory HTTP endpoints
add_or_update_item(item) ==
  /\ stock' = Upserted(stock, item.item_sku, item.quantity)
  /\ InRange(stock')
  /\ UNCHANGED <<http, inv, orders, payments, queue, nextId, sent, redelivered, responses,
                 reservedBy, restoredBy, listening, owed, crashed, warnings, comp, injected>>

reserve_stock(req) ==
  /\ CanReserve(stock, req.item_sku, req.quantity)
  /\ stock' = Reserved(stock, req.item_sku, req.quantity)
  /\ InRange(stock')
  /\ UNCHANGED <<http, inv, orders, payments, queue, nextId, sent, redelivered, responses,
                 reservedBy, restoredBy, listening, owed, crashed, warnings, comp, injected>>

release_stock(req) ==
  /\ HasItem(stock, req.item_sku)
  /\ stock' = Released(stock, req.item_sku, req.quantity)
  /\ InRange(stock')
  /\ UNCHANGED <<http, inv, orders, payments, queue, nextId, sent, redelivered, responses,
                 reservedBy, restoredBy, listening, owed, crashed, warnings, comp, injected>>

\* ------------------------------------------------------------ order service
Response(status, order_id) == [status |-> status, order_id |-> order_id]

Respond(key, r) == [responses EXCEPT ![key] = @ \cup {r}]

\* POST /api/v1/orders, run from its first line to its return.  fault names the
\* downstream call that raises RequestException before it takes effect.
create_order(req, fault) ==
  IF Existing(req.idempotency_key) # {}
    THEN
      /\ fault = "none"
      /\ \E e \in Existing(req.idempotency_key) :
           responses' = Respond(req.idempotency_key, Response(e.status, e.order_id))
      /\ UNCHANGED <<http, inv, stock, orders, payments, queue, nextId, sent, redelivered,
                     reservedBy, restoredBy, listening, owed,
                     crashed, warnings, comp, injected>>
    ELSE
      /\ nextId <= MaxOrders
      /\ nextId' = nextId + 1
      /\ LET new_order_id == nextId
             reserved == fault # "inventory"
                           /\ CanReserve(stock, req.item_sku, req.quantity)
             paid == reserved /\ fault # "payment"
             authorized == paid /\ is_successful(req.amount)
             status == IF authorized THEN "confirmed" ELSE "failed"
             released == reserved /\ ~authorized /\ fault # "release"
             saved == paid /\ (authorized \/ released)
         IN
           /\ stock' = IF reserved
                         THEN IF released
                                THEN Released(Reserved(stock, req.item_sku, req.quantity),
                                              req.item_sku, req.quantity)
                                ELSE Reserved(stock, req.item_sku, req.quantity)
                         ELSE stock
           /\ payments' = IF paid
                            THEN Append(payments, PaymentRow(new_order_id, req.amount))
                            ELSE payments
           /\ orders' = IF saved
                          THEN orders \cup {OrderRow(new_order_id, req, status)}
                          ELSE orders
           /\ responses' = Respond(req.idempotency_key,
                                   IF saved THEN Response(status, new_order_id)
                                   ELSE IF paid THEN Response("error", NoId)
                                   ELSE Response("failed", NoId))
      /\ UNCHANGED <<http, inv, queue, sent, redelivered, reservedBy, restoredBy, listening, owed,
               crashed, warnings, comp, injected>>

EventData(o) ==
  [order_id |-> o.order_id, item_sku |-> o.item_sku, quantity |-> o.quantity,
   amount |-> o.amount]

\* RabbitMQProducer.publish_event of the order service, default routing key
publish_event(event_data) ==
  /\ sent < MaxPublish
  /\ sent' = sent + 1
  /\ queue' = Publish(queue, "order.created", event_data)
  /\ UNCHANGED <<http, inv, stock, orders, payments, nextId, redelivered, responses,
                 reservedBy, restoredBy, listening, owed, crashed, warnings, comp, injected>>

\* ------------------------------------------------------- message handlers
\* A handler runs from delivery to its finally block as one step.
\*   "store"    db.query / db.commit raises: nothing is written or published
\*   "publish"  basic_publish raises inside RabbitMQProducer.publish
\*   "crash"    the consumer is lost after its effects and before basic_ack:
\*              the broker keeps the message and delivers it again
\* the publish no longer waits for db.commit() to return
PublishedAnyway(fault) == fault # "publish"

Committed(fault) == fault # "store"
Published(fault) == fault \notin {"store", "publish"}
Acked(fault) == fault # "crash"

Delivered(n, fault) ==
  /\ queue[n] # << >>
  /\ fault = "crash" => redelivered < MaxRedeliver
  /\ redelivered' = IF fault = "crash" THEN redelivered + 1 ELSE redelivered

AfterAck(n, fault) == IF Acked(fault) THEN Ack(queue, n) ELSE queue

\* json.loads(body): a payload that is not JSON is carried as [raw |-> text]
Parses(body) == "raw" \notin DOMAIN body

\* 'field' in data
Has(data, field) == field \in DOMAIN data

\* the else branch prints nothing
WarnedSilently(w, data) == w

\* print("Warning: Missing item info in payment.failed event, ...")
Warned(w, data) == w \cup {data}

\* the consumer's thread is still in start_consuming
Running(consumer) == consumer \notin crashed

\* json.loads raises before the handler's try block: the exception leaves the
\* callback and start_consuming, the thread ends, the message stays unacked
Raised(consumer, fault) ==
  /\ fault = "none"
  /\ crashed' = crashed \cup {consumer}

process_order_created(fault) ==
  /\ Running("inventory")
  /\ Delivered("inventory.order.created", fault)
  /\ IF ~Parses(Head(queue["inventory.order.created"]).body)
       THEN
         /\ Raised("inventory", fault)
         /\ UNCHANGED <<stock, reservedBy, queue, owed>>
       ELSE
     LET data == Head(queue["inventory.order.created"]).body
         enough == CanReserve(stock, data.item_sku, data.quantity)
         q == AfterAck("inventory.order.created", fault)
     IN
       /\ UNCHANGED crashed
       /\ stock' = IF Committed(fault) /\ enough
                     THEN Reserved(stock, data.item_sku, data.quantity)
                     ELSE stock
       /\ reservedBy' = IF Committed(fault) /\ enough
                          THEN [reservedBy EXCEPT ![data.order_id] = @ + data.quantity]
                          ELSE reservedBy
       /\ queue' = IF Published(fault)
                     THEN IF enough
                            THEN Publish(q, "stock.reserved", data)
                            ELSE Publish(q, "stock.rejected",
                                         [order_id |-> data.order_id,
                                          reason |-> "INSUFFICIENT_STOCK"])
                     ELSE q
       /\ owed' = IF Published(fault) /\ ~enough
                    THEN owed \cup {Message("stock.rejected",
                                            [order_id |-> data.order_id,
                                             reason |-> "INSUFFICIENT_STOCK"])}
                    ELSE owed
  /\ UNCHANGED <<http, inv, orders, payments, nextId, sent, responses, restoredBy, listening,
                 warnings, comp, injected>>

process_payment_failed(fault) ==
  /\ fault # "publish"
  /\ Running("inventory")
  /\ Delivered("inventory.payment.failed", fault)
  /\ LET data == Head(queue["inventory.payment.failed"]).body IN
       IF ~Parses(data)
         THEN
           /\ Raised("inventory", fault)
           /\ UNCHANGED <<stock, restoredBy, queue, warnings>>
         ELSE IF ~(Has(data, "item_sku") /\ Has(data, "quantity"))
           THEN
             /\ warnings' = Warned(warnings, data)
             /\ queue' = AfterAck("inventory.payment.failed", fault)
             /\ UNCHANGED <<stock, restoredBy, crashed>>
           ELSE
             LET found == HasItem(stock, data.item_sku) IN
               /\ stock' = IF Committed(fault) /\ found
                             THEN Released(stock, data.item_sku, data.quantity)
                             ELSE stock
               /\ restoredBy' = IF Committed(fault) /\ found
                                  THEN [restoredBy EXCEPT
                                          ![data.order_id] = @ + data.quantity]
                                  ELSE restoredBy
               /\ queue' = AfterAck("inventory.payment.failed", fault)
               /\ UNCHANGED <<crashed, warnings>>
  /\ UNCHANGED <<http, inv, orders, payments, nextId, sent, responses, reservedBy, listening,
                 owed, comp, injected>>

process_stock_reserved(fault) ==
  /\ Running("payment")
  /\ Delivered("payment.stock.reserved", fault)
  /\ IF ~Parses(Head(queue["payment.stock.reserved"]).body)
       THEN
         /\ Raised("payment", fault)
         /\ UNCHANGED <<payments, queue, owed>>
       ELSE
     LET data == Head(queue["payment.stock.reserved"]).body
         q == AfterAck("payment.stock.reserved", fault)
     IN
       /\ UNCHANGED crashed
       /\ payments' = IF Committed(fault)
                        THEN Append(payments, PaymentRow(data.order_id, data.amount))
                        ELSE payments
       /\ queue' = IF Published(fault)
                     THEN PaymentPublish(q, IF is_successful(data.amount)
                                              THEN "payment.succeeded"
                                              ELSE "payment.failed", data)
                     ELSE q
       /\ owed' = IF Published(fault)
                    THEN owed \cup {Message(IF is_successful(data.amount)
                                              THEN "payment.succeeded"
                                              ELSE "payment.failed", data)}
                    ELSE owed
  /\ UNCHANGED <<http, inv, stock, orders, nextId, sent, responses, reservedBy, restoredBy,
                 listening, warnings, comp, injected>>

\* the lookup forgets its filter: any row is taken for the event's order
FoundAny(o, order_id) == TRUE

\* db.query(Order).filter(Order.order_id == order_id)
Found(o, order_id) == o.order_id = order_id

\* OrderConsumer.callback; the queue is consumed with auto_ack=True, so the
\* message is gone when the callback starts
callback(fault) ==
  /\ fault \in {"none", "store"}
  /\ listening
  /\ queue["order.events"] # << >>
  /\ LET m == Head(queue["order.events"])
     IN
       /\ queue' = Ack(queue, "order.events")
       /\ owed' = owed \ {m}       /\ orders' = IF Committed(fault) /\ Parses(m.body) /\ Has(m.body, "order_id")
                      THEN {IF Found(o, m.body.order_id)
                              THEN [o EXCEPT !.status = StatusFor(m.routing_key, @)]
                              ELSE o : o \in orders}
                      ELSE orders
  /\ UNCHANGED <<http, inv, stock, payments, nextId, sent, redelivered, responses,
                 reservedBy, restoredBy, listening, crashed, warnings, comp, injected>>

\* ---------------------------------------------------------- specifications
Requests ==
  [item_sku : Sku, quantity : OrderQtys, amount : Amounts, idempotency_key : Keys]

StockCalls == [item_sku : Sku, quantity : HttpQtys]

Next ==
  \/ \E item \in StockCalls : add_or_update_item(item)
  \/ \E req \in StockCalls : reserve_stock(req)
  \/ \E req \in StockCalls : release_stock(req)
  \/ \E req \in Requests, fault \in HttpFaults : create_order(req, fault)
  \/ \E o \in orders : publish_event(EventData(o))
  \/ \E fault \in HandlerFaults : process_order_created(fault)
  \/ \E fault \in HandlerFaults : process_payment_failed(fault)
  \/ \E fault \in HandlerFaults : process_stock_reserved(fault)
  \/ \E fault \in HandlerFaults : callback(fault)

Spec == Init /\ [][Next]_vars

NextReliable ==
  \/ \E item \in StockCalls : add_or_update_item(item)
  \/ \E req \in StockCalls : reserve_stock(req)
  \/ \E req \in StockCalls : release_stock(req)
  \/ \E req \in Requests : create_order(req, "none")
  \/ \E o \in orders : publish_event(EventData(o))
  \/ process_order_created("none")
  \/ process_payment_failed("none")
  \/ process_stock_reserved("none")
  \/ callback("none")

SpecReliable == Init /\ [][NextReliable]_vars

\* ------------------------------------------- the order consumer's connection
\* OrderConsumer.__init__: connect, declare a new server-named exclusive queue,
\* bind it to the three terminal routing keys and start consuming
start_consumer_thread ==
  /\ ~listening
  /\ listening' = TRUE
  /\ queue' = [queue EXCEPT !["order.events"] = << >>]
  /\ UNCHANGED <<stock, orders, payments, nextId, sent, redelivered, responses,
                 reservedBy, restoredBy, http, inv, owed, crashed, warnings, comp, injected>>

\* the consumer's connection closes (broker or service restart): the broker
\* deletes the exclusive queue with everything in it
connection_lost ==
  /\ listening
  /\ listening' = FALSE
  /\ queue' = [queue EXCEPT !["order.events"] = << >>]
  /\ UNCHANGED <<stock, orders, payments, nextId, sent, redelivered, responses,
                 reservedBy, restoredBy, http, inv, owed, crashed, warnings, comp, injected>>

NextRestart ==
  \/ NextReliable
  \/ start_consumer_thread
  \/ connection_lost

\* every consumer that has a message takes it, and a consumer that lost its
\* connection connects again (the retry loop of __init__)
Fairness ==
  /\ WF_vars(process_order_created("none"))
  /\ WF_vars(process_payment_failed("none"))
  /\ WF_vars(process_stock_reserved("none"))
  /\ WF_vars(callback("none"))
  /\ WF_vars(start_consumer_thread)

SpecRestart == Init /\ [][NextRestart]_vars /\ Fairness

\* ------------------------------------------ create_order, statement by statement
\* Each request thread runs create_order once.  The calls to the inventory
\* service are split where reserve_stock / release_stock read the row and where
\* they commit the value computed from what they read.
Step(t, r) == [http EXCEPT ![t] = r]

\* a request for the same key is under way in another thread
Overlaps(t, req) ==
  \E u \in Threads \ {t} :
    /\ http[u].pc \notin {"idle", "done"}
    /\ http[u].req.idempotency_key = req.idempotency_key

\* idempotency check and uuid4
co_begin(t, req) ==
  /\ http[t].pc = "idle"
  /\ IF Existing(req.idempotency_key) # {}
       THEN
         /\ \E e \in Existing(req.idempotency_key) :
              http' = Step(t, [Idle EXCEPT !.pc = "done", !.req = req,
                                           !.overlapped = Overlaps(t, req),
                                           !.status = e.status,
                                           !.returned = e.order_id])
         /\ UNCHANGED nextId
       ELSE
         /\ nextId <= MaxOrders
         /\ nextId' = nextId + 1
         /\ http' = Step(t, [Idle EXCEPT !.pc = "reserve", !.req = req,
                                         !.overlapped = Overlaps(t, req),
                                         !.order_id = nextId])
  /\ UNCHANGED <<stock, orders, payments, queue, sent, redelivered, responses,
                 reservedBy, restoredBy, inv, listening, owed,
                 crashed, warnings, comp, injected>>

\* reserve_stock: the query and the two error returns
co_reserve_read(t) ==
  /\ http[t].pc = "reserve"
  /\ LET req == http[t].req IN
       http' = Step(t,
         IF CanReserve(stock, req.item_sku, req.quantity)
           THEN [http[t] EXCEPT !.pc = "reserve_commit", !.snap = stock[req.item_sku]]
           ELSE [http[t] EXCEPT !.pc = "done", !.status = "failed"])
  /\ UNCHANGED <<stock, orders, payments, queue, nextId, sent, redelivered,
                 responses, reservedBy, restoredBy, inv, listening, owed,
                 crashed, warnings, comp, injected>>

\* reserve_stock: item.quantity -= req.quantity; db.commit()
co_reserve_commit(t) ==
  /\ http[t].pc = "reserve_commit"
  /\ LET req == http[t].req IN
       stock' = WriteBack(stock, req.item_sku, http[t].snap - req.quantity)
  /\ http' = Step(t, [http[t] EXCEPT !.pc = "authorize", !.reserved = TRUE])
  /\ UNCHANGED <<orders, payments, queue, nextId, sent, redelivered, responses,
                 reservedBy, restoredBy, inv, listening, owed,
                 crashed, warnings, comp, injected>>

\* authorize_payment_manual, called with the new order id
co_authorize(t) ==
  /\ http[t].pc = "authorize"
  /\ payments' = Append(payments, PaymentRow(http[t].order_id, http[t].req.amount))
  /\ http' = Step(t, [http[t] EXCEPT
                        !.pc = IF is_successful(http[t].req.amount)
                                 THEN "save" ELSE "release",
                        !.paid = TRUE,
                        !.authorized = is_successful(http[t].req.amount)])
  /\ UNCHANGED <<stock, orders, queue, nextId, sent, redelivered, responses,
                 reservedBy, restoredBy, inv, listening, owed,
                 crashed, warnings, comp, injected>>

\* release_stock: the query
co_release_read(t) ==
  /\ http[t].pc = "release"
  /\ http' = Step(t,
       IF HasItem(stock, http[t].req.item_sku)
         THEN [http[t] EXCEPT !.pc = "release_commit",
                              !.snap = stock[http[t].req.item_sku]]
         ELSE [http[t] EXCEPT !.pc = "save"])
  /\ UNCHANGED <<stock, orders, payments, queue, nextId, sent, redelivered,
                 responses, reservedBy, restoredBy, inv, listening, owed,
                 crashed, warnings, comp, injected>>

\* release_stock: item.quantity += req.quantity; db.commit()
co_release_commit(t) ==
  /\ http[t].pc = "release_commit"
  /\ LET req == http[t].req IN
       stock' = WriteBack(stock, req.item_sku, http[t].snap + req.quantity)
  /\ http' = Step(t, [http[t] EXCEPT !.pc = "save", !.reserved = FALSE])
  /\ UNCHANGED <<orders, payments, queue, nextId, sent, redelivered, responses,
                 reservedBy, restoredBy, inv, listening, owed,
                 crashed, warnings, comp, injected>>

\* database.add(new_order); database.commit(): idempotency_key is unique, so the
\* commit of a second row for the key raises and the request ends in an error
co_save(t) ==
  /\ http[t].pc = "save"
  /\ LET status == IF http[t].authorized THEN "confirmed" ELSE "failed" IN
       IF Existing(http[t].req.idempotency_key) # {}
         THEN
           /\ http' = Step(t, [http[t] EXCEPT !.pc = "done", !.status = "error"])
           /\ UNCHANGED orders
         ELSE
           /\ orders' = orders \cup {OrderRow(http[t].order_id, http[t].req, status)}
           /\ http' = Step(t, [http[t] EXCEPT !.pc = "done", !.status = status,
                                              !.returned = http[t].order_id])
  /\ UNCHANGED <<stock, payments, queue, nextId, sent, redelivered, responses,
                 reservedBy, restoredBy, inv, listening, owed,
                 crashed, warnings, comp, injected>>

\* ------------------------------- process_order_created, read and commit apart
\* a callback is entered while another one has not returned
DispatchingAnyway == TRUE

\* start_consuming runs in the consumer's one thread: it calls the callback for
\* the next message of either queue only after the previous callback returned
Dispatching == inv.pc = "idle" /\ comp.pc = "idle"

poc_read ==
  /\ Dispatching
  /\ queue["inventory.order.created"] # << >>
  /\ LET data == Head(queue["inventory.order.created"]).body IN
       IF CanReserve(stock, data.item_sku, data.quantity)
         THEN
           /\ inv' = [pc |-> "commit", snap |-> stock[data.item_sku]]
           /\ UNCHANGED <<queue, owed, crashed, warnings, comp, injected>>
         ELSE
           /\ queue' = Publish(Ack(queue, "inventory.order.created"), "stock.rejected",
                               [order_id |-> data.order_id,
                                reason |-> "INSUFFICIENT_STOCK"])
           /\ owed' = owed \cup {Message("stock.rejected",
                                         [order_id |-> data.order_id,
                                          reason |-> "INSUFFICIENT_STOCK"])}
           /\ UNCHANGED inv
  /\ UNCHANGED <<stock, orders, payments, nextId, sent, redelivered, responses,
                 reservedBy, restoredBy, http, listening, crashed, warnings, comp, injected>>

poc_commit ==
  /\ inv.pc = "commit"
  /\ LET data == Head(queue["inventory.order.created"]).body IN
       /\ stock' = WriteBack(stock, data.item_sku, inv.snap - data.quantity)
       /\ reservedBy' = [reservedBy EXCEPT ![data.order_id] = @ + data.quantity]
       /\ queue' = Publish(Ack(queue, "inventory.order.created"), "stock.reserved", data)
  /\ inv' = [pc |-> "idle", snap |-> 0]
  /\ UNCHANGED <<orders, payments, nextId, sent, redelivered, responses,
                 restoredBy, http, listening, owed, crashed, warnings, comp, injected>>

\* ------------------------------ process_payment_failed, read and commit apart
\* (the events here are the saga's own: they parse and carry sku and quantity)
ppf_read ==
  /\ Dispatching
  /\ queue["inventory.payment.failed"] # << >>
  /\ LET data == Head(queue["inventory.payment.failed"]).body IN
       IF HasItem(stock, data.item_sku)
         THEN
           /\ comp' = [pc |-> "commit", snap |-> stock[data.item_sku]]
           /\ UNCHANGED queue
         ELSE
           /\ queue' = Ack(queue, "inventory.payment.failed")
           /\ UNCHANGED comp
  /\ UNCHANGED <<stock, orders, payments, nextId, sent, redelivered, responses,
                 reservedBy, restoredBy, http, inv, listening, owed, crashed, warnings,
                 injected>>

ppf_commit ==
  /\ comp.pc = "commit"
  /\ LET data == Head(queue["inventory.payment.failed"]).body IN
       /\ stock' = WriteBack(stock, data.item_sku, comp.snap + data.quantity)
       /\ restoredBy' = [restoredBy EXCEPT ![data.order_id] = @ + data.quantity]
       /\ queue' = Ack(queue, "inventory.payment.failed")
  /\ comp' = [pc |-> "idle", snap |-> 0]
  /\ UNCHANGED <<orders, payments, nextId, sent, redelivered, responses, reservedBy,
                 http, inv, listening, owed, crashed, warnings, injected>>

InitConc == InitWith([s \in Sku |-> SeedQty])

NextConc ==
  \/ \E t \in Threads, req \in Requests : co_begin(t, req)
  \/ \E t \in Threads : co_reserve_read(t)
  \/ \E t \in Threads : co_reserve_commit(t)
  \/ \E t \in Threads : co_authorize(t)
  \/ \E t \in Threads : co_release_read(t)
  \/ \E t \in Threads : co_release_commit(t)
  \/ \E t \in Threads : co_save(t)
  \/ \E o \in orders : publish_event(EventData(o))
  \/ poc_read
  \/ poc_commit

SpecConc == InitConc /\ [][NextConc]_vars

\* --------------------------------------------------- the end-to-end scenario
\* The SKU is seeded, orders are created and their order.created events
\* published; no other stock call, no fault, the order consumer stays
\* connected.
ScenarioRequests ==
  [item_sku : Sku, quantity : OrderQtys, amount : ScenarioAmounts, idempotency_key : Keys]

NextScenario ==
  \/ \E req \in ScenarioRequests : create_order(req, "none")
  \/ \E o \in orders : publish_event(EventData(o))
  \/ process_order_created("none")
  \/ process_payment_failed("none")
  \/ process_stock_reserved("none")
  \/ callback("none")

SpecScenario == InitConc /\ [][NextScenario]_vars /\ Fairness

\* ------------------------------------------------ messages from other clients
\* The exchange "events" takes a message from any client of the broker.
UnknownId == MaxOrders + 1

Unparseable == [raw |-> "{"]

Foreign ==
  {Message("order.created", Unparseable),
   Message("stock.reserved", Unparseable),
   Message("payment.failed", Unparseable),
   
   Message("stock.rejected", [reason |-> "INSUFFICIENT_STOCK"]),
   Message("payment.failed", [order_id |-> UnknownId]),
   Message("payment.failed", [order_id |-> UnknownId, item_sku |-> "P-1001"])}

basic_publish(m) ==
  /\ m \notin injected
  /\ Cardinality(injected) < MaxForeign
  /\ injected' = injected \cup {m}
  /\ queue' = Publish(queue, m.routing_key, m.body)
  /\ UNCHANGED <<stock, orders, payments, nextId, sent, redelivered, responses,
                 reservedBy, restoredBy, http, inv, listening, owed, crashed, warnings,
                 comp>>

\* one client of the order service, retrying under its one idempotency key
InputRequests == {req \in Requests : req.idempotency_key = "k1"}

NextInput ==
  \/ \E req \in InputRequests : create_order(req, "none")
  \/ \E o \in orders : publish_event(EventData(o))
  \/ process_order_created("none")
  \/ process_payment_failed("none")
  \/ process_stock_reserved("none")
  \/ callback("none")
  \/ \E m \in Foreign : basic_publish(m)

SpecInput == InitConc /\ [][NextInput]_vars

\* ------------------------------------------- the inventory consumer's thread
\* Both inventory handlers split at their reads and commits, the other
\* services atomic.
\* a payment.failed event of an order of another run, published again
Compensations ==
  {Message("payment.failed",
           [order_id |-> 1, item_sku |-> "P-1001", quantity |-> 1, amount |-> 1000])}

NextInventory ==
  \/ \E req \in Requests : create_order(req, "none")
  \/ \E o \in orders : publish_event(EventData(o))
  \/ poc_read
  \/ poc_commit
  \/ ppf_read
  \/ ppf_commit
  \/ process_stock_reserved("none")
  \/ callback("none")
  \/ \E m \in Compensations : basic_publish(m)

SpecInventory == InitConc /\ [][NextInventory]_vars

\* ------------------------------------------------- one saga with handler faults
\* One client places orders against a seeded SKU and every consumer may meet a
\* store error, a publish error or the loss of its connection.
NextSaga ==
  \/ \E req \in InputRequests : create_order(req, "none")
  \/ \E o \in orders : publish_event(EventData(o))
  \/ \E fault \in HandlerFaults :
       \/ process_order_created(fault)
       \/ process_stock_reserved(fault)
       \/ process_payment_failed(fault)
       \/ callback(fault)

SpecSaga == InitConc /\ [][NextSaga]_vars

\* ================================================================== claims
RECURSIVE SumOver(_, _)
SumOver(f, S) ==
  IF S = {} THEN 0
  ELSE LET x == CHOOSE y \in S : TRUE IN f[x] + SumOver(f, S \ {x})

\* quantity held by reservations that succeeded and were not released
HeldByRequests ==
  SumOver([t \in Threads |-> IF http[t].reserved THEN http[t].req.quantity ELSE 0],
          Threads)

HeldByEvents == SumOver(reservedBy, OrderIds)

\* the requests under way or finished are for different idempotency keys
DistinctOrders ==
  \A t \in Threads : \A u \in Threads \ {t} :
    (http[t].pc # "idle" /\ http[u].pc # "idle") =>
      http[t].req.idempotency_key # http[u].req.idempotency_key

\* C1 (SpecConc): conservation.  In every interleaving of the reserve_stock
\* calls and the order.created handler on one SKU, the quantities of the
\* reservations that succeeded add up to at most the quantity the SKU was
\* seeded with, and the stored quantity is never negative.
C1_Conservation ==
  DistinctOrders =>
    /\ HeldByRequests + HeldByEvents <= SeedQty
    /\ \A s \in DOMAIN stock : stock[s] >= 0

Terminal == {"COMPLETED", "CANCELLED_NO_STOCK", "CANCELLED_PAYMENT_FAILED"}

\* C2 (Spec): terminal absorption.  An order whose status is COMPLETED,
\* CANCELLED_NO_STOCK or CANCELLED_PAYMENT_FAILED keeps that status in every
\* later step, whatever event the order consumer handles.
C2_TerminalAbsorption ==
  [][\A o \in orders :
       o.status \in Terminal =>
         \E n \in orders' : n.order_id = o.order_id /\ n.status = o.status]_vars

\* no message of the saga of order_id is left in any queue
Quiescent(order_id) ==
  \A n \in QueueNames :
    \A i \in 1..Len(queue[n]) : queue[n][i].body.order_id # order_id

\* C3 (Spec): compensation completeness.  For an order in
\* CANCELLED_PAYMENT_FAILED whose messages have all been handled, the quantity
\* the payment.failed handler gave back equals the quantity the order.created
\* handler took: the saga's net effect on the SKU is zero.
C3_CompensationComplete ==
  \A o \in orders :
    (o.status = "CANCELLED_PAYMENT_FAILED" /\ Quiescent(o.order_id)) =>
      restoredBy[o.order_id] = reservedBy[o.order_id]

\* C4 (Spec): idempotent creation.  For every idempotency key create_order
\* was called with, all calls returned one and the same response, exactly one
\* order row carries the key, and the response names that row.
C4_IdempotentCreation ==
  \A k \in Keys :
    responses[k] # {} =>
      /\ Cardinality(responses[k]) = 1
      /\ Cardinality(Existing(k)) = 1
      /\ \A r \in responses[k] : \E o \in Existing(k) : r.order_id = o.order_id

PaymentsOf(ids) == {i \in DOMAIN payments : payments[i].order_id \in ids}

\* C5 (SpecConc): two create_order requests with the same idempotency key that
\* overlap both return the same order id, and between them stock is reserved
\* at most once and at most one payment is recorded.
C5_OverlapOneEffect ==
  \A t \in Threads : \A u \in Threads \ {t} :
    ( /\ http[t].pc = "done" /\ http[u].pc = "done"
      /\ http[t].req.idempotency_key = http[u].req.idempotency_key
      /\ http[u].overlapped ) =>
      /\ http[t].returned = http[u].returned
      /\ http[t].returned # NoId
      /\ ~(http[t].reserved /\ http[u].reserved)
      /\ Cardinality(PaymentsOf({http[t].order_id, http[u].order_id} \ {NoId})) <= 1

\* C6 (Spec): a create_order call for a new idempotency key (the call that
\* draws a new order id) saves a row with status PENDING under that id and
\* appends exactly one order.created event carrying the row's order id, sku,
\* quantity and amount.
C6_CreatePublishesPending ==
  [][nextId' # nextId =>
       \E o \in orders' \ orders :
         /\ o.order_id = nextId
         /\ o.status = "PENDING"
         /\ queue' = Publish(queue, "order.created", EventData(o))]_vars

\* C7 (Spec): the payment.failed handler never gives back more than the
\* order.created handler took for the same order, and gives back nothing for
\* an order that is COMPLETED.
C7_OneCompensation ==
  /\ \A id \in OrderIds : restoredBy[id] <= reservedBy[id]
  /\ \A o \in orders : o.status = "COMPLETED" => restoredBy[o.order_id] = 0

Grew(n) == Len(queue'[n]) > Len(queue[n])
Shrank(n) == Len(queue'[n]) < Len(queue[n])

\* C8 (Spec): a step that acknowledges an order.created message also publishes
\* its stock.reserved or stock.rejected event, and a step that acknowledges a
\* stock.reserved message also commits its Payment row and publishes the
\* payment event.
C8_AckAfterEffects ==
  [][/\ Shrank("inventory.order.created") =>
          (Grew("payment.stock.reserved") \/ Grew("order.events"))
     /\ Shrank("payment.stock.reserved") =>
          (Len(payments') > Len(payments) /\ Grew("order.events"))]_vars

\* C9 (Spec): the quantity of every stock row is >= 0 in every reachable state.
C9_QuantityNonNegative == \A s \in DOMAIN stock : stock[s] >= 0

\* C10 (SpecReliable): a step that handles an order.created event whose sku
\* has a stock row holding at least the requested quantity lowers that row by
\* exactly the requested quantity and appends exactly one message, a
\* stock.reserved with the event's order_id, sku, quantity and amount.
C10_ReserveOnSufficientStock ==
  [][(Shrank("inventory.order.created")
        /\ CanReserve(stock, Head(queue["inventory.order.created"]).body.item_sku,
                      Head(queue["inventory.order.created"]).body.quantity)) =>
       LET data == Head(queue["inventory.order.created"]).body IN
         /\ stock' = [stock EXCEPT ![data.item_sku] = @ - data.quantity]
         /\ queue' = [queue EXCEPT
                        !["inventory.order.created"] = Tail(@),
                        !["payment.stock.reserved"] =
                           Append(@, [routing_key |-> "stock.reserved",
                                      body |-> data])]]_vars

\* a reservation of 2 was made and its stock.reserved event is in the queue
C10_Witness ==
  \E i \in DOMAIN queue["payment.stock.reserved"] :
    LET m == queue["payment.stock.reserved"][i] IN
      /\ m.routing_key = "stock.reserved"
      /\ m.body.quantity = 2
      /\ reservedBy[m.body.order_id] = 2

SuccessStatuses == {"COMPLETED", "confirmed"}

\* C13 (SpecScenario): the outcomes the end-to-end scenarios 1 and 3 expect.
\* Every Payment row of amount 150 is successful and every Payment row of
\* amount 400 is failed; an order of amount 150 never carries the
\* payment-failed status and an order of amount 400 never carries a success
\* status.
C13_ScenarioAmounts ==
  /\ \A i \in DOMAIN payments :
       /\ payments[i].amount = 150 =>
            (payments[i].is_successful /\ payments[i].status = "success")
       /\ payments[i].amount = 400 =>
            (~payments[i].is_successful /\ payments[i].status = "failed")
  /\ \A o \in orders :
       /\ o.amount = 150 => o.status # "CANCELLED_PAYMENT_FAILED"
       /\ o.amount = 400 => o.status \notin SuccessStatuses

\* C14 (SpecReliable): a step changes the status of an order only by handling
\* a terminal event for that order while the order is PENDING, and then the new
\* status is COMPLETED for payment.succeeded, CANCELLED_NO_STOCK for
\* stock.rejected and CANCELLED_PAYMENT_FAILED for payment.failed; a step that
\* handles such an event for a PENDING order does make that change.
C14_StatusSetFromPending ==
  [][\A o \in orders : \A n \in orders' :
       n.order_id = o.order_id =>
         LET handled == /\ Shrank("order.events")
                        /\ Head(queue["order.events"]).body.order_id = o.order_id
             rk == Head(queue["order.events"]).routing_key
             mapped == CASE rk = "payment.succeeded" -> "COMPLETED"
                         [] rk = "stock.rejected" -> "CANCELLED_NO_STOCK"
                         [] rk = "payment.failed" -> "CANCELLED_PAYMENT_FAILED"
                         [] OTHER -> o.status
         IN
           /\ n.status # o.status => (handled /\ o.status = "PENDING" /\ n.status = mapped)
           /\ (handled /\ o.status = "PENDING") => n.status = mapped]_vars

SagaStatuses == {"PENDING"} \cup Terminal

\* C15 (SpecReliable): after every step each order's status is one of PENDING,
\* COMPLETED, CANCELLED_NO_STOCK, CANCELLED_PAYMENT_FAILED, and a row the step
\* created has status PENDING.  (No order exists initially.)
C15_StatusDomain ==
  [][\A n \in orders' :
       /\ n.status \in SagaStatuses
       /\ (\A o \in orders : o.order_id # n.order_id) => n.status = "PENDING"]_vars

\* C16 (Spec): the payments table is append-only and holds at most one row per
\* order id.  Every step keeps each stored Payment row as it is, and after the
\* step no order id has two rows, also when a stock.reserved event is
\* delivered again after a lost acknowledgement.
C16_OnePaymentPerOrder ==
  [][/\ \A i \in DOMAIN payments :
          i \in DOMAIN payments' /\ payments'[i] = payments[i]
     /\ \A id \in OrderIds : Cardinality(PaymentsOf({id})') <= 1]_vars

\* C17 (SpecReliable): every Payment row belongs to an order for which the
\* order.created handler reserved stock and published stock.reserved, and an
\* order whose stock.rejected event is in the order consumer's queue has no
\* Payment row.
C17_PaymentOnlyAfterReservation ==
  /\ \A i \in DOMAIN payments : reservedBy[payments[i].order_id] > 0
  /\ \A i \in DOMAIN queue["order.events"] :
       queue["order.events"][i].routing_key = "stock.rejected" =>
         PaymentsOf({queue["order.events"][i].body.order_id}) = {}

\* C18 (Spec): the order.created handler takes stock at most once per order
\* id: whatever is delivered again after a lost acknowledgement, the quantity
\* it has taken for an order is never more than the order's quantity.
C18_OneReservationPerOrder ==
  \A o \in orders : reservedBy[o.order_id] <= o.quantity

\* C19 (SpecRestart): every terminal event (payment.succeeded, stock.rejected,
\* payment.failed) published for an order is eventually passed to the order
\* consumer's callback, also when it was published while the consumer was
\* disconnected.
C19_TerminalEventHandled ==
  \A id \in OrderIds : \A rk \in Bindings["order.events"] :
    (\E e \in owed : e.body.order_id = id /\ e.routing_key = rk)
      ~> ~(\E e \in owed : e.body.order_id = id /\ e.routing_key = rk)

\* the successful Payment rows of an order
SuccessfulPaymentsOf(id) == {i \in PaymentsOf({id}) : payments[i].is_successful}

\* C20 (SpecScenario): with every consumer taking its messages and no fault,
\* an order that was accepted (its quantity was in stock) with an amount below
\* 1000 eventually is COMPLETED; and whenever the only order there is is
\* COMPLETED, the SKU holds the seeded quantity minus the order's quantity and
\* the order has exactly one successful Payment row.
C20_HappyPath ==
  /\ \A id \in OrderIds :
       (\E o \in orders : o.order_id = id /\ o.amount < 1000)
         ~> (\E o \in orders : o.order_id = id /\ o.status = "COMPLETED")
  /\ [](\A o \in orders :
          (o.status = "COMPLETED" /\ orders = {o} /\ nextId = o.order_id + 1) =>
            /\ stock[o.item_sku] = SeedQty - o.quantity
            /\ Cardinality(SuccessfulPaymentsOf(o.order_id)) = 1)

\* C21 (SpecInput): a step in which the order consumer takes a terminal event
\* that parses but has no order_id, or whose order_id is the id of no order,
\* changes no order row and no other store, removes just that event from the
\* queue and leaves the consumer connected and running.
C21_UnknownOrderDropped ==
  [][(Shrank("order.events") /\ listening') =>
       LET m == Head(queue["order.events"]) IN
         ("raw" \notin DOMAIN m.body
            /\ ("order_id" \notin DOMAIN m.body
                  \/ \A o \in orders : o.order_id # m.body.order_id)) =>
           /\ orders' = orders
           /\ stock' = stock
           /\ payments' = payments
           /\ queue' = [queue EXCEPT !["order.events"] = Tail(@)]
           /\ listening' = listening
           /\ crashed' = crashed]_vars

\* an event without order_id and an event for an unknown order were published
\* and taken, and the consumer went on to set an order's terminal status
C21_Witness ==
  /\ Message("stock.rejected", [reason |-> "INSUFFICIENT_STOCK"]) \in injected
  /\ Message("payment.failed", [order_id |-> UnknownId]) \in injected
  /\ queue["order.events"] = << >>
  /\ listening
  /\ \E o \in orders : o.status \in Terminal

\* C22 (SpecInput): a step in which the inventory consumer takes a
\* payment.failed event that parses but lacks item_sku or quantity changes no
\* stock row, records a warning for that event, acknowledges just that event
\* and leaves the consumer running.
C22_MissingFieldsWarned ==
  [][Shrank("inventory.payment.failed") =>
       LET data == Head(queue["inventory.payment.failed"]).body IN
         ("raw" \notin DOMAIN data
            /\ ("item_sku" \notin DOMAIN data \/ "quantity" \notin DOMAIN data)) =>
           /\ stock' = stock
           /\ data \in warnings'
           /\ queue' = [queue EXCEPT !["inventory.payment.failed"] = Tail(@)]
           /\ crashed' = crashed]_vars

\* a payment.failed without quantity and one without sku and quantity were
\* both warned about, and the consumer also reserved stock for an order
C22_Witness ==
  /\ [order_id |-> UnknownId, item_sku |-> "P-1001"] \in warnings
  /\ [order_id |-> UnknownId] \in warnings
  /\ queue["inventory.payment.failed"] = << >>
  /\ "inventory" \notin crashed
  /\ \E id \in OrderIds : reservedBy[id] > 0

\* C23 (SpecInput): an unparseable payload never ends a consumer, and the step
\* in which a handler takes one changes no store, publishes nothing and
\* removes just that message from its queue.
C23_MalformedDropped ==
  [][/\ crashed' = {}
     /\ \A n \in QueueNames :
          (Shrank(n) /\ "raw" \in DOMAIN Head(queue[n]).body) =>
            /\ stock' = stock
            /\ orders' = orders
            /\ payments' = payments
            /\ queue' = [queue EXCEPT ![n] = Tail(@)]]_vars

\* C24 (SpecReliable): in every reachable state of the stock ledger, the
\* upsert of a SKU with a positive quantity q yields a ledger in which the
\* SKU's quantity is q, whether the SKU had a row or not.
C24_UpsertSetsQuantity ==
  \A sku \in Sku : \A q \in {x \in HttpQtys : x > 0} :
    Upserted(stock, sku, q)[sku] = q

\* C25 (SpecReliable): in every state in which an order's status is
\* CANCELLED_PAYMENT_FAILED, the inventory consumer has already handled that
\* order's payment.failed event: none is waiting in its queue and what it gave
\* back for the order equals what was taken for it.
C25_CompensatedBeforeVisible ==
  \A o \in orders :
    o.status = "CANCELLED_PAYMENT_FAILED" =>
      /\ restoredBy[o.order_id] = reservedBy[o.order_id]
      /\ \A i \in DOMAIN queue["inventory.payment.failed"] :
           queue["inventory.payment.failed"][i].body.order_id # o.order_id

\* the order consumer takes an event carrying this order id in the step
HandledFor(order_id) ==
  /\ Shrank("order.events")
  /\ Head(queue["order.events"]).body.order_id = order_id

\* C26 (Spec): every step keeps every order row, changing at most its status;
\* it changes the status only of the order whose terminal event the order
\* consumer takes in that step; and an order that has had no terminal event
\* and gets none in the step is PENDING after it.
C26_OrderFrame ==
  [][\A o \in orders :
       \E n \in orders' :
         /\ n = [o EXCEPT !.status = n.status]
         /\ n.status # o.status => HandledFor(o.order_id)
         /\ (o.status \notin Terminal /\ ~HandledFor(o.order_id)) =>
              n.status = "PENDING"]_vars

\* C27 (SpecInventory): the inventory consumer never has two messages in
\* hand: after every step at most one of its two handlers is between its read
\* and its acknowledgement; and a step that acknowledges a message of one of
\* its queues removes the head of that queue, the message delivered first, and
\* ends the handling that was under way.
C27_OneAtATime ==
  [][/\ ~(inv'.pc # "idle" /\ comp'.pc # "idle")
     /\ \A n \in {"inventory.order.created", "inventory.payment.failed"} :
          Shrank(n) =>
            /\ queue'[n] = Tail(queue[n])
            /\ inv.pc # "idle" => inv'.pc = "idle"
            /\ comp.pc # "idle" => comp'.pc = "idle"]_vars

\* the consumer is between the read and the commit of a payment.failed event
\* while an order.created event is waiting in the other queue
C27_Witness ==
  /\ comp.pc = "commit"
  /\ inv.pc = "idle"
  /\ queue["inventory.order.created"] # << >>

\* C28 (Spec): a step in which the inventory consumer acknowledges an
\* order.created message publishes exactly one event for the order id the
\* message carries: stock.reserved to the payment queue or stock.rejected to the
\* order queue, never both and never none.
C28_OneEventPerAck ==
  [][Shrank("inventory.order.created") =>
       LET data == Head(queue["inventory.order.created"]).body
           reserved == queue'["payment.stock.reserved"] =
                         Append(queue["payment.stock.reserved"],
                                Message("stock.reserved", data))
           rejected == queue'["order.events"] =
                         Append(queue["order.events"],
                                Message("stock.rejected",
                                        [order_id |-> data.order_id,
                                         reason |-> "INSUFFICIENT_STOCK"]))
       IN reserved # rejected]_vars

\* C29 (SpecSaga): a step that publishes payment.succeeded for an order commits
\* in the same handling a Payment row of that order with is_successful true, a
\* step that publishes payment.failed commits one with is_successful false, and
\* a handling of stock.reserved that commits no row publishes no event.
C29_PublishAfterCommit ==
  [][/\ Grew("order.events") =>
          LET event == queue'["order.events"][Len(queue'["order.events"])]
          IN event.routing_key \in {"payment.succeeded", "payment.failed"} =>
               /\ Len(payments') = Len(payments) + 1
               /\ payments'[Len(payments')].order_id = event.body.order_id
               /\ payments'[Len(payments')].is_successful =
                    (event.routing_key = "payment.succeeded")
     /\ Grew("inventory.payment.failed") => Grew("order.events")
     /\ (Shrank("payment.stock.reserved") /\ payments' = payments) =>
          (~Grew("order.events") /\ ~Grew("inventory.payment.failed"))]_vars

\* the payment consumer published payment.succeeded for an order reserved by
\* the inventory consumer, and a successful Payment row of that order is stored
C29_Witness ==
  /\ \E i \in DOMAIN queue["order.events"] :
       /\ queue["order.events"][i].routing_key = "payment.succeeded"
       /\ \E j \in DOMAIN payments :
            /\ payments[j].order_id = queue["order.events"][i].body.order_id
            /\ payments[j].is_successful
            /\ reservedBy[payments[j].order_id] > 0

\* C30 (SpecReliable): cross-store consistency.  Once every message of an
\* order has been handled: a COMPLETED order has a successful Payment row and
\* its quantity is taken from the SKU and not given back; an order in
\* CANCELLED_PAYMENT_FAILED has a failed Payment row and what was taken for it
\* was given back; an order in CANCELLED_NO_STOCK has no Payment row and
\* nothing was taken for it.
C30_CrossStoreConsistency ==
  \A o \in orders :
    Quiescent(o.order_id) =>
      LET rows == PaymentsOf({o.order_id})
          taken == reservedBy[o.order_id]
          given_back == restoredBy[o.order_id]
      IN
        /\ o.status = "COMPLETED" =>
             /\ \E i \in rows : payments[i].is_successful
             /\ taken = o.quantity /\ given_back = 0
        /\ o.status = "CANCELLED_PAYMENT_FAILED" =>
             /\ \E i \in rows : ~payments[i].is_successful
             /\ taken = given_back
        /\ o.status = "CANCELLED_NO_STOCK" =>
             /\ rows = {}
             /\ taken = 0

\* C31 (Spec): a create_order call that got past the idempotency check changes
\* the quantity of a SKU by minus the ordered quantity when it saved an order
\* row with status confirmed for that SKU, and leaves it unchanged otherwise,
\* whichever downstream call failed.
C31_NetStockChange ==
  [][nextId' # nextId =>
       \A s \in DOMAIN stock :
         stock'[s] - stock[s] =
           IF \E o \in orders' \ orders : o.status = "confirmed" /\ o.item_sku = s
             THEN -(CHOOSE o \in orders' \ orders : o.item_sku = s).quantity
             ELSE 0]_vars

====
